---- MODULE Spec2Model ----
(***************************************************************************)
(* Model of the pod-restart tracker                                        *)
(* (charts/pod-restart-tracker/docker/restart_tracker.py).                  *)
(*                                                                         *)
(* Time is counted in whole seconds.  A restart rate is a rational number  *)
(* kept as a record [num, den] (restarts per minute = num / den).          *)
(***************************************************************************)
EXTENDS Integers, Sequences, FiniteSets, TLC

VARIABLES
    clock,                \* what datetime.now() returns, in seconds
    TIME_WINDOW_MINUTES,  \* configuration read at start-up
    restart_history,      \* pod_key -> sequence of [timestamp, restart_count]
    last_log_collected,   \* pod_key -> time of the last log collection
    request,              \* the request served last
    response,             \* the HTTP status answered to it
    body,                 \* the JSON body answered to it
    calls,                \* analyze_restart_pattern calls made by that request
    notified,             \* send_ntfy_notification calls made by that request
    threads,              \* the requests the dispatcher runs in parallel
    classified,           \* restart counts given a priority, with the priority
    notification,         \* a send_ntfy_notification call and what came of it
    monitor_check,        \* PVC / node-disk monitor: thresholds and the last check
    drift_check,          \* drift detector: the last POST /check
    cert_event,           \* cert-automation: NODE_IPS and the last event handled
    health_run            \* health-check: CRITICAL_SERVICES and the last POST /check

vars == <<clock, TIME_WINDOW_MINUTES, restart_history, last_log_collected,
          request, response, body, calls, notified, threads, classified,
          notification, monitor_check, drift_check, cert_event, health_run>>

(* the state of the other services of the repository, each its own process *)
addons == <<monitor_check, drift_check, cert_event, health_run>>

served == <<request, response, body, calls, notified>>

----------------------------------------------------------------------------
(* Bounds of the model *)

MaxTime == 600
MaxHist == 2
MaxContainers == 2
MaxCount == 25
MaxTitleLen == 2
MaxTags == 2
MaxMessageLen == 1
MaxItems == 3
MaxApps == 2
MaxUnmanaged == 2
MaxNodes == 2
MaxRules == 2
MaxServices == 2

(* Program constants *)

RESTART_THRESHOLD == 5
LOG_INTERVAL_SECONDS == 300
SECONDS_PER_MINUTE == 60
DEFAULT_WARNING_THRESHOLD == 80
DEFAULT_CRITICAL_THRESHOLD == 90

(* Input domains *)

WindowChoices == {5, 60}
ServiceWindows == {0, 5, 60}
Deltas == {300}
Namespaces == {"prod"}
PodNames == {"api-7f"}
ContainerNames == {"app", "db"}
Counts == {4, 5}
ConcCounts == {5, 21}
Shapes == {"ok", "badstate"}
LogOutcomes == {"lines", "empty", "nonzero", "raised"}

(* A container status.  shape "badstate" is a status whose state.waiting is *)
(* not a mapping; the state is read only once the threshold is reached, so *)
(* it is drawn only with such counts.                                       *)
Containers ==
    {c \in [name : ContainerNames, restartCount : Counts, shape : Shapes] :
        c.shape = "badstate" => c.restartCount >= RESTART_THRESHOLD}

RECURSIVE SeqsUpTo(_, _)
SeqsUpTo(S, n) ==
    IF n = 0 THEN {<<>>}
    ELSE LET shorter == SeqsUpTo(S, n - 1)
         IN shorter \cup {Append(q, x) : q \in {r \in shorter : Len(r) = n - 1}, x \in S}

DistinctNames(q) ==
    \A i, j \in 1..Len(q) : q[i].name = q[j].name => i = j

(* containerStatuses of a pod: container names are unique within a pod *)
ContainerStatuses ==
    {q \in SeqsUpTo(Containers, MaxContainers) : DistinctNames(q)}

Events == [namespace : Namespaces, name : PodNames,
           containers : ContainerStatuses]

NoRequest == [route |-> "none"]

NoBody == [status |-> "none"]

NoNotification == [sent |-> FALSE]

----------------------------------------------------------------------------
(* Helpers of the handlers *)

PodKey(namespace, name, container_name) ==
    namespace \o "/" \o name \o "/" \o container_name

HistoryOf(history, pod_key) ==
    IF pod_key \in DOMAIN history THEN history[pod_key] ELSE <<>>

PutAlone(f, k, v) == [x \in {k} |-> v]

Put(f, k, v) == [x \in DOMAIN f \cup {k} |-> IF x = k THEN v ELSE f[x]]

(* number of observations kept under the keys ks *)
RECURSIVE Stored(_, _)
Stored(history, ks) ==
    IF ks = {} THEN 0
    ELSE LET k == CHOOSE x \in ks : TRUE
         IN Len(history[k]) + Stored(history, ks \ {k})

ZeroRate == [num |-> 0, den |-> 1]

PruneNothing(h, cutoff_time) == h

PruneAll(h, cutoff_time) == <<>>

Prune(h, cutoff_time) ==
    SelectSeq(h, LAMBDA r : r.timestamp > cutoff_time)

RestartRateUnguarded(h) ==
    IF Len(h) > 1
    THEN [num |-> Len(h) * SECONDS_PER_MINUTE,
          den |-> h[Len(h)].timestamp - h[1].timestamp]
    ELSE ZeroRate

RestartRate(h) ==
    IF Len(h) > 1
    THEN LET time_diff_seconds == h[Len(h)].timestamp - h[1].timestamp
         IN IF time_diff_seconds > 0
            THEN [num |-> Len(h) * SECONDS_PER_MINUTE, den |-> time_diff_seconds]
            ELSE ZeroRate
    ELSE ZeroRate

(* a record call that applies the cutoff to every key of the map *)
analyze_pruning_every_key(history, pod_key, restart_count, now) ==
    LET appended == Append(HistoryOf(history, pod_key),
                           [timestamp |-> now, restart_count |-> restart_count])
        cutoff_time == now - TIME_WINDOW_MINUTES * SECONDS_PER_MINUTE
        all == Put(history, pod_key, appended)
        pruned == [k \in DOMAIN all |-> Prune(all[k], cutoff_time)]
    IN [history |-> pruned,
        restart_rate |-> RestartRate(pruned[pod_key])]

analyze_restart_pattern(history, pod_key, restart_count, now) ==
    LET appended == Append(HistoryOf(history, pod_key),
                           [timestamp |-> now, restart_count |-> restart_count])
        cutoff_time == now - TIME_WINDOW_MINUTES * SECONDS_PER_MINUTE
        kept == Prune(appended, cutoff_time)
    IN [history |-> Put(history, pod_key, kept),
        restart_rate |-> RestartRate(kept)]

ReachesThresholdStrict(restart_count) == restart_count > RESTART_THRESHOLD

ReachesThreshold(restart_count) == restart_count >= RESTART_THRESHOLD

PriorityInclusive(restart_count) ==
    IF restart_count >= 20 THEN "max"
    ELSE IF restart_count >= 10 THEN "high"
    ELSE "default"

Priority(restart_count) ==
    IF restart_count > 20 THEN "max"
    ELSE IF restart_count > 10 THEN "high"
    ELSE "default"

LogText(cli) ==
    CASE cli = "lines"   -> "log lines"
      [] cli = "empty"   -> ""
      [] cli = "nonzero" -> "Erro ao coletar logs: stderr"
      [] cli = "raised"  -> "Logs nao disponiveis"

(* the function without its try/except *)
get_pod_logs_unguarded(cli) ==
    [raised |-> cli = "raised", logs |-> LogText(cli)]

(* cli "raised" is subprocess.run raising, the 10 s timeout included;      *)
(* raised: an exception reaches the caller; logs: the value returned       *)
get_pod_logs(cli) == [raised |-> FALSE, logs |-> LogText(cli)]

LogDue(lastlog, pod_key, now) ==
    \/ pod_key \notin DOMAIN lastlog
    \/ now - lastlog[pod_key] > LOG_INTERVAL_SECONDS

----------------------------------------------------------------------------
(* send_ntfy_notification.  A text is the sequence of its Unicode code     *)
(* points, a header or a body the sequence handed to requests.post.        *)

IsAscii(c) == c < 128

IsSurrogate(c) == c >= 55296 /\ c <= 57343

Comma == <<44>>

KeepAll(text) == text

(* text.encode('ascii', 'ignore').decode('ascii') *)
AsciiIgnore(text) == SelectSeq(text, IsAscii)

(* the bytes of one code point in UTF-8 *)
Utf8Of(c) ==
    IF c < 128 THEN <<c>>
    ELSE IF c < 2048 THEN <<192 + (c \div 64), 128 + (c % 64)>>
    ELSE IF c < 65536
         THEN <<224 + (c \div 4096), 128 + ((c \div 64) % 64), 128 + (c % 64)>>
         ELSE <<240 + (c \div 262144), 128 + ((c \div 4096) % 64),
                128 + ((c \div 64) % 64), 128 + (c % 64)>>

(* text.encode('utf-8') raises UnicodeEncodeError on a lone surrogate *)
Encodable(text) == \A i \in 1..Len(text) : ~IsSurrogate(text[i])

RECURSIVE Utf8Encode(_)
Utf8Encode(text) ==
    IF text = <<>> THEN <<>>
    ELSE Utf8Of(Head(text)) \o Utf8Encode(Tail(text))

(* sep.join(parts) *)
RECURSIVE Join(_, _)
Join(parts, sep) ==
    IF Len(parts) = 0 THEN <<>>
    ELSE IF Len(parts) = 1 THEN parts[1]
    ELSE parts[1] \o sep \o Join(Tail(parts), sep)

(* what requests.post does: an answer with a status code, or an exception *)
Answer(status_code) == [raised |-> FALSE, status_code |-> status_code]

ConnectionError == [raised |-> TRUE, status_code |-> 0]

Transports == {Answer(200), Answer(204), Answer(500), ConnectionError}

NoPost == [posted |-> FALSE, Title |-> <<>>, Priority |-> "",
           has_tags |-> FALSE, Tags |-> <<>>, data |-> <<>>]

(* the function without its try/except *)
send_ntfy_unguarded(title, message, priority, tags, transport) ==
    [raised |-> ~Encodable(message) \/ transport.raised,
     result |-> Encodable(message) /\ ~transport.raised
                   /\ transport.status_code = 200,
     post |-> NoPost]

(* raised: an exception reaches the caller; result: the value returned;    *)
(* post: the request handed to requests.post                               *)
send_ntfy_notification(title, message, priority, tags, transport) ==
    IF ~Encodable(message)
    THEN [raised |-> FALSE, result |-> FALSE, post |-> NoPost]
    ELSE [raised |-> FALSE,
          result |-> ~transport.raised /\ transport.status_code = 200,
          post |-> [posted |-> TRUE,
                    Title |-> AsciiIgnore(title),
                    Priority |-> priority,
                    has_tags |-> tags # <<>>,
                    Tags |-> Join([i \in 1..Len(tags) |-> AsciiIgnore(tags[i])],
                                  Comma),
                    data |-> Utf8Encode(message)]]

(* "ALERT", the body and the tags of the alert of process_pod_event *)
AlertTitle == <<65, 76, 69, 82, 84>>

AlertMessage == <<80, 79, 68>>

AlertTags == << <<119, 97, 114, 110, 105, 110, 103>>,
                <<114, 111, 116, 97, 116, 105, 110, 103, 95,
                  108, 105, 103, 104, 116>> >>

----------------------------------------------------------------------------
(* process_pod_event: the body of the loop over containerStatuses.  s is    *)
(* the state of the request so far; cli is what the kubectl call does and  *)
(* transport what requests.post does.                                      *)

ProcessContainer(event, container, cli, transport, now, s) ==
    LET pod_key == PodKey(event.namespace, event.name, container.name)
        restart_count == container.restartCount
    IN IF ReachesThreshold(restart_count)
       THEN LET a == analyze_restart_pattern(s.history, pod_key, restart_count, now)
                call == [pod_key |-> pod_key, now |-> now,
                         restart_count |-> restart_count,
                         before |-> HistoryOf(s.history, pod_key),
                         restart_rate |-> a.restart_rate]
                recorded == [s EXCEPT !.history = a.history,
                                      !.calls = Append(@, call)]
            IN IF container.shape = "badstate"
               THEN [recorded EXCEPT !.raised = TRUE]
               ELSE LET due == LogDue(s.lastlog, pod_key, now)
                        fetch == IF due THEN get_pod_logs(cli)
                                 ELSE [raised |-> FALSE, logs |-> ""]
                        logs == fetch.logs
                        sent == send_ntfy_notification(
                                    AlertTitle, AlertMessage,
                                    Priority(restart_count), AlertTags,
                                    transport)
                        note == [pod_key |-> pod_key,
                                 restart_count |-> restart_count,
                                 restart_rate |-> a.restart_rate,
                                 priority |-> Priority(restart_count),
                                 at |-> now,
                                 fetched |-> due,
                                 cli |-> IF due THEN cli ELSE "",
                                 logs |-> logs,
                                 delivered |-> sent.result]
                    IN IF fetch.raised
                       THEN [recorded EXCEPT !.raised = TRUE]
                       ELSE [recorded EXCEPT
                               !.lastlog = IF due /\ logs # ""
                                           THEN Put(@, pod_key, now) ELSE @,
                               !.notified = Append(@, note),
                               !.raised = sent.raised]
       ELSE s

RECURSIVE ProcessFrom(_, _, _, _, _, _)
ProcessFrom(event, i, cli, transport, now, s) ==
    IF i > Len(event.containers) \/ s.raised THEN s
    ELSE ProcessFrom(event, i + 1, cli, transport, now,
                     ProcessContainer(event, event.containers[i], cli,
                                      transport, now, s))

process_pod_event(event, cli, transport, now) ==
    ProcessFrom(event, 1, cli, transport, now,
                [history |-> restart_history, lastlog |-> last_log_collected,
                 calls |-> <<>>, notified |-> <<>>,
                 raised |-> FALSE])

----------------------------------------------------------------------------
(* The service, one request at a time.  A request is served within one      *)
(* instant of the clock: the datetime.now() calls it makes return the same  *)
(* value.  SpecConc below lets the clock advance between the statements.    *)

Threads == {1, 2}

(* a request of the dispatcher: where it stands (pc), its locals, the log  *)
(* fetch and the requests.post calls it made, and the status it answered  *)
IdleThread == [pc |-> "idle", pod_key |-> "", restart_count |-> 0, now |-> 0,
               kept |-> <<>>, restart_rate |-> ZeroRate,
               fetched |-> FALSE, fetch_at |-> 0,
               posts |-> 0, posted_rate |-> ZeroRate, status |-> 0]

(* the monitors before their first check, with the thresholds read at start *)
MonitorIdle(warning, critical) ==
    [service |-> "none", WARNING_THRESHOLD |-> warning,
     CRITICAL_THRESHOLD |-> critical]

NoDriftCheck == [checked |-> FALSE]

(* cert-automation before its first event; ''.split(',') is [''] *)
DefaultNodeIps == <<"">>

CertIdle(node_ips) == [handled |-> FALSE, NODE_IPS |-> node_ips]

DefaultCriticalServices ==
    <<"kubernetes.default.svc.cluster.local:443",
      "kube-dns.kube-system.svc.cluster.local:53">>

HealthIdle(services) == [checked |-> FALSE, CRITICAL_SERVICES |-> services]

MonitorStart ==
    monitor_check = MonitorIdle(DEFAULT_WARNING_THRESHOLD,
                                DEFAULT_CRITICAL_THRESHOLD)

DriftStart == drift_check = NoDriftCheck

CertStart == cert_event = CertIdle(DefaultNodeIps)

HealthStart == health_run = HealthIdle(DefaultCriticalServices)

TrackerStart ==
    /\ clock = 0
    /\ restart_history = <<>>
    /\ last_log_collected = <<>>
    /\ request = NoRequest
    /\ response = 0
    /\ body = NoBody
    /\ calls = <<>>
    /\ notified = <<>>
    /\ threads = [t \in Threads |-> IdleThread]
    /\ classified = <<>>
    /\ notification = NoNotification

Start == TrackerStart /\ MonitorStart /\ DriftStart /\ CertStart /\ HealthStart

Init == Start /\ TIME_WINDOW_MINUTES \in WindowChoices

Tick(d) ==
    /\ clock + d <= MaxTime
    /\ clock' = clock + d
    /\ UNCHANGED <<TIME_WINDOW_MINUTES, restart_history, last_log_collected,
                   served, threads, classified, notification, addons>>

(* POST /pods with an envelope that decodes to event *)
handle_pod_event(event, cli, transport) ==
    \E s \in {process_pod_event(event, cli, transport, clock)} :
       /\ Stored(s.history, DOMAIN s.history) <= MaxHist
       /\ restart_history' = s.history
       /\ last_log_collected' = s.lastlog
       /\ calls' = s.calls
       /\ notified' = s.notified
       /\ request' = [route |-> "/pods", event |-> event]
       /\ response' = IF s.raised THEN 500 ELSE 200
       /\ body' = IF s.raised THEN [status |-> "error"] ELSE [status |-> "ok"]
       /\ UNCHANGED <<clock, TIME_WINDOW_MINUTES, threads, classified,
                      notification, addons>>

(* POST /pods with an envelope from_http cannot decode *)
handle_undecodable ==
    /\ request' = [route |-> "/pods", event |-> "undecodable"]
    /\ response' = 500
    /\ body' = [status |-> "error", message |-> "str(e)"]
    /\ calls' = <<>>
    /\ notified' = <<>>
    /\ UNCHANGED <<clock, TIME_WINDOW_MINUTES, restart_history,
                   last_log_collected, threads, classified, notification, addons>>

Next ==
    \/ \E d \in Deltas : Tick(d)
    \/ \E event \in Events, cli \in LogOutcomes :
          handle_pod_event(event, cli, Answer(200))
    \/ handle_undecodable

Spec == Init /\ [][Next]_vars

----------------------------------------------------------------------------
(* The four routes of the service, one request at a time, the window of    *)
(* the configuration being any integer from 0.                             *)

(* "TEST", the body and the tags of the notification of POST /test *)
TestTitle == <<84, 69, 83, 84>>

TestMessage == <<84, 69, 83, 84, 69>>

TestTags == << <<98, 101, 108, 108>>,
               <<119, 104, 105, 116, 101, 95, 99, 104, 101, 99, 107, 95,
                 109, 97, 114, 107>> >>

(* datetime.isoformat(): the text of an instant *)
isoformat(timestamp) == [iso |-> timestamp]

StatsEntryOfFirst(history) ==
    [total_events |-> Len(history),
     last_restart_count |-> history[1].restart_count,
     last_seen |-> isoformat(history[1].timestamp)]

StatsEntry(history) ==
    [total_events |-> Len(history),
     last_restart_count |-> history[Len(history)].restart_count,
     last_seen |-> isoformat(history[Len(history)].timestamp)]

stats_data(history) ==
    [pod_key \in {k \in DOMAIN history : history[k] # <<>>} |->
        StatsEntry(history[pod_key])]

(* GET /health *)
health ==
    /\ request' = [route |-> "/health"]
    /\ response' = 200
    /\ body' = [status |-> "healthy", cluster |-> "CLUSTER_NAME",
                tracked_pods |-> Cardinality(DOMAIN restart_history)]
    /\ calls' = <<>>
    /\ notified' = <<>>
    /\ UNCHANGED <<clock, TIME_WINDOW_MINUTES, restart_history,
                   last_log_collected, threads, classified, notification, addons>>

(* GET /stats that looks every key up in the defaultdict *)
stats_defaulting ==
    /\ request' = [route |-> "/stats"]
    /\ response' = 200
    /\ body' = stats_data(restart_history)
    /\ calls' = <<>>
    /\ notified' = <<>>
    /\ restart_history' = Put(restart_history, "", <<>>)
    /\ UNCHANGED <<clock, TIME_WINDOW_MINUTES,
                   last_log_collected, threads, classified, notification, addons>>

(* GET /stats *)
stats ==
    /\ request' = [route |-> "/stats"]
    /\ response' = 200
    /\ body' = stats_data(restart_history)
    /\ calls' = <<>>
    /\ notified' = <<>>
    /\ UNCHANGED <<clock, TIME_WINDOW_MINUTES, restart_history,
                   last_log_collected, threads, classified, notification, addons>>

(* POST /test; an exception leaving the view is answered 500 by Flask *)
test_notification(transport) ==
    \E sent \in {send_ntfy_notification(TestTitle, TestMessage, "default",
                                         TestTags, transport)} :
       /\ request' = [route |-> "/test"]
       /\ response' = IF sent.raised THEN 500 ELSE 200
       /\ body' = IF sent.raised THEN [status |-> "error"]
                  ELSE [status |-> "ok", message |-> "Test notification sent"]
       /\ calls' = <<>>
       /\ notified' = <<[title |-> "TEST", priority |-> "default",
                          at |-> clock, delivered |-> sent.result]>>
       /\ UNCHANGED <<clock, TIME_WINDOW_MINUTES, restart_history,
                      last_log_collected, threads, classified, notification, addons>>

InitService == Start /\ TIME_WINDOW_MINUTES \in ServiceWindows

NextService ==
    \/ \E d \in Deltas : Tick(d)
    \/ \E event \in Events, cli \in {"lines", "empty"} :
          handle_pod_event(event, cli, Answer(200))
    \/ handle_undecodable
    \/ health
    \/ stats
    \/ \E transport \in Transports : test_notification(transport)

SpecService == InitService /\ [][NextService]_vars

(* The same service with a notifier whose transport may fail *)
NextTransport ==
    \/ \E d \in Deltas : Tick(d)
    \/ \E event \in Events, transport \in Transports :
          handle_pod_event(event, "lines", transport)

SpecTransport == Init /\ [][NextTransport]_vars

----------------------------------------------------------------------------
(* Two requests for the same container run by the threaded dispatcher:     *)
(* process_pod_event statement by statement, no lock taken.                *)

SharedKey == PodKey("prod", "api-7f", "app")

Goto(t, label) == [threads EXCEPT ![t].pc = label]

Begin(t, restart_count) ==
    /\ threads[t].pc = "idle"
    /\ ReachesThreshold(restart_count)
    /\ threads' = [threads EXCEPT ![t].pc = "now",
                                  ![t].pod_key = SharedKey,
                                  ![t].restart_count = restart_count]
    /\ UNCHANGED <<clock, TIME_WINDOW_MINUTES, restart_history,
                   last_log_collected, served, classified, notification, addons>>

(* now = datetime.now() *)
ReadClock(t) ==
    /\ threads[t].pc = "now"
    /\ threads' = [threads EXCEPT ![t].pc = "append", ![t].now = clock]
    /\ UNCHANGED <<clock, TIME_WINDOW_MINUTES, restart_history,
                   last_log_collected, served, classified, notification, addons>>

(* restart_history[pod_key].append(...) *)
AppendObservation(t) ==
    /\ threads[t].pc = "append"
    /\ restart_history' =
          Put(restart_history, threads[t].pod_key,
              Append(HistoryOf(restart_history, threads[t].pod_key),
                     [timestamp |-> threads[t].now,
                      restart_count |-> threads[t].restart_count]))
    /\ threads' = Goto(t, "filter")
    /\ UNCHANGED <<clock, TIME_WINDOW_MINUTES, last_log_collected, served,
                   classified, notification, addons>>

(* the list comprehension over restart_history[pod_key] *)
FilterHistory(t) ==
    /\ threads[t].pc = "filter"
    /\ threads' = [threads EXCEPT
          ![t].pc = "store",
          ![t].kept = Prune(HistoryOf(restart_history, threads[t].pod_key),
                            threads[t].now
                              - TIME_WINDOW_MINUTES * SECONDS_PER_MINUTE)]
    /\ UNCHANGED <<clock, TIME_WINDOW_MINUTES, restart_history,
                   last_log_collected, served, classified, notification, addons>>

(* restart_history[pod_key] = <the filtered list> *)
StoreHistory(t) ==
    /\ threads[t].pc = "store"
    /\ restart_history' = Put(restart_history, threads[t].pod_key, threads[t].kept)
    /\ threads' = Goto(t, "rate")
    /\ UNCHANGED <<clock, TIME_WINDOW_MINUTES, last_log_collected, served,
                   classified, notification, addons>>

(* the rate computed from restart_history[pod_key], and the return *)
ReadRate(t) ==
    /\ threads[t].pc = "rate"
    /\ threads' = [threads EXCEPT
          ![t].pc = "check",
          ![t].restart_rate =
              RestartRate(HistoryOf(restart_history, threads[t].pod_key))]
    /\ UNCHANGED <<clock, TIME_WINDOW_MINUTES, restart_history,
                   last_log_collected, served, classified, notification, addons>>

(* pod_key not in last_log_collected or more than 300 s since *)
CheckLog(t) ==
    /\ threads[t].pc = "check"
    /\ threads' = Goto(t, IF LogDue(last_log_collected, threads[t].pod_key,
                                     clock)
                          THEN "fetch" ELSE "post")
    /\ UNCHANGED <<clock, TIME_WINDOW_MINUTES, restart_history,
                   last_log_collected, served, classified, notification, addons>>

(* logs = get_pod_logs(...); if logs: *)
FetchLogs(t, cli) ==
    /\ threads[t].pc = "fetch"
    /\ threads' = [threads EXCEPT
          ![t].fetched = TRUE,
          ![t].fetch_at = clock,
          ![t].pc = IF get_pod_logs(cli).logs # "" THEN "mark" ELSE "post"]
    /\ UNCHANGED <<clock, TIME_WINDOW_MINUTES, restart_history,
                   last_log_collected, served, classified, notification, addons>>

(* last_log_collected[pod_key] = datetime.now() *)
MarkFetched(t) ==
    /\ threads[t].pc = "mark"
    /\ last_log_collected' = Put(last_log_collected, threads[t].pod_key, clock)
    /\ threads' = Goto(t, "post")
    /\ UNCHANGED <<clock, TIME_WINDOW_MINUTES, restart_history, served,
                   classified, notification, addons>>

(* send_ntfy_notification with a transport that raises on failure, once   *)
(* more after a failure                                                    *)
PostRetrying(t, transport) ==
    /\ threads[t].pc = "post"
    /\ threads' = [threads EXCEPT
          ![t].pc = "done",
          ![t].posts = @ + (IF transport = Answer(200) THEN 1 ELSE 2),
          ![t].posted_rate = threads[t].restart_rate,
          ![t].status = 200]
    /\ UNCHANGED <<clock, TIME_WINDOW_MINUTES, restart_history,
                   last_log_collected, served, classified, notification, addons>>

(* send_ntfy_notification when requests.post returns or raises, and the    *)
(* answer of the request                                                   *)
PostNotification(t, transport) ==
    /\ threads[t].pc = "post"
    /\ \E sent \in {send_ntfy_notification(
                        AlertTitle, AlertMessage,
                        Priority(threads[t].restart_count), AlertTags,
                        transport)} :
          threads' = [threads EXCEPT
             ![t].pc = "done",
             ![t].posts = @ + 1,
             ![t].posted_rate = threads[t].restart_rate,
             ![t].status = IF sent.raised THEN 500 ELSE 200]
    /\ UNCHANGED <<clock, TIME_WINDOW_MINUTES, restart_history,
                   last_log_collected, served, classified, notification, addons>>

NextConc ==
    \/ \E d \in Deltas : Tick(d)
    \/ \E t \in Threads, restart_count \in ConcCounts : Begin(t, restart_count)
    \/ \E t \in Threads : ReadClock(t)
    \/ \E t \in Threads : AppendObservation(t)
    \/ \E t \in Threads : FilterHistory(t)
    \/ \E t \in Threads : StoreHistory(t)
    \/ \E t \in Threads : ReadRate(t)
    \/ \E t \in Threads : CheckLog(t)
    \/ \E t \in Threads : FetchLogs(t, "lines")
    \/ \E t \in Threads : MarkFetched(t)
    \/ \E t \in Threads : PostNotification(t, Answer(200))

SpecConc == Init /\ [][NextConc]_vars

----------------------------------------------------------------------------
(* One request after the other, statement by statement, with the two       *)
(* blocking calls: subprocess.run, which returns or raises within its      *)
(* timeout of 10 s, and requests.post, which is given no timeout.          *)

Workers == {1}

Answered(t, status) ==
    [threads EXCEPT ![t].pc = "done", ![t].status = status]

(* from_http raises: the except branch of handle_pod_event *)
Reject(t) ==
    /\ threads[t].pc = "idle"
    /\ threads' = Answered(t, 500)
    /\ UNCHANGED <<clock, TIME_WINDOW_MINUTES, restart_history,
                   last_log_collected, served, classified, notification, addons>>

(* a container below the threshold: nothing to do *)
BelowThreshold(t, restart_count) ==
    /\ threads[t].pc = "idle"
    /\ ~ReachesThreshold(restart_count)
    /\ threads' = [Answered(t, 200) EXCEPT ![t].restart_count = restart_count]
    /\ UNCHANGED <<clock, TIME_WINDOW_MINUTES, restart_history,
                   last_log_collected, served, classified, notification, addons>>

(* state['waiting'].get raises: the except branch of process_pod_event *)
StateRaises(t) ==
    /\ threads[t].pc = "check"
    /\ threads' = Answered(t, 500)
    /\ UNCHANGED <<clock, TIME_WINDOW_MINUTES, restart_history,
                   last_log_collected, served, classified, notification, addons>>

(* requests.post is called and the peer never answers *)
Hang(t) ==
    /\ threads[t].pc = "post"
    /\ threads' = [threads EXCEPT ![t].pc = "blocked", ![t].posts = @ + 1]
    /\ UNCHANGED <<clock, TIME_WINDOW_MINUTES, restart_history,
                   last_log_collected, served, classified, notification, addons>>

(* the dispatcher takes the next request *)
Reset(t) ==
    /\ threads[t].pc = "done"
    /\ Len(HistoryOf(restart_history, SharedKey)) < MaxHist
    /\ threads' = [threads EXCEPT ![t] = IdleThread]
    /\ UNCHANGED <<clock, TIME_WINDOW_MINUTES, restart_history,
                   last_log_collected, served, classified, notification, addons>>

(* the statements of the handler that return by themselves *)
LiveStep ==
    \E t \in Workers :
       \/ ReadClock(t)
       \/ AppendObservation(t)
       \/ FilterHistory(t)
       \/ StoreHistory(t)
       \/ ReadRate(t)
       \/ CheckLog(t)
       \/ \E cli \in LogOutcomes : FetchLogs(t, cli)
       \/ MarkFetched(t)
       \/ \E transport \in Transports : PostNotification(t, transport)

NextLive ==
    \/ \E d \in Deltas : Tick(d)
    \/ \E t \in Workers, restart_count \in Counts :
          Begin(t, restart_count) \/ BelowThreshold(t, restart_count)
    \/ \E t \in Workers : Reject(t) \/ StateRaises(t) \/ Hang(t) \/ Reset(t)
    \/ LiveStep

SpecLive == Init /\ [][NextLive]_vars /\ WF_vars(LiveStep)

----------------------------------------------------------------------------
(* The severity of an alert, as process_pod_event computes it for a        *)
(* container that reached the threshold.                                    *)

LastOf(q) == IF q = <<>> THEN <<>> ELSE <<q[Len(q)]>>

Classify(restart_count) ==
    /\ ReachesThreshold(restart_count)
    /\ classified' = Append(LastOf(classified),
                            [restart_count |-> restart_count,
                             priority |-> Priority(restart_count)])
    /\ UNCHANGED <<clock, TIME_WINDOW_MINUTES, restart_history,
                   last_log_collected, served, threads, notification, addons>>

NextSeverity == \E restart_count \in 0..MaxCount : Classify(restart_count)

SpecSeverity == Init /\ [][NextSeverity]_vars

----------------------------------------------------------------------------
(* send_ntfy_notification called with any title, body and tags.            *)

(* "C", " " and U+1F534 (red circle) *)
TitleChars == {67, 32, 128308}

(* U+1F534 followed by " CRITICAL" *)
CriticalTitle == <<128308, 32, 67, 82, 73, 84, 73, 67, 65, 76>>

Titles == SeqsUpTo(TitleChars, MaxTitleLen) \cup {CriticalTitle}

(* "warning", U+1F6A8 (rotating light) and a tag mixing both *)
Warning == <<119, 97, 114, 110, 105, 110, 103>>

Siren == <<128680>>

TagPool == {Warning, Siren, <<119, 128680, 97>>}

TagLists == SeqsUpTo(TagPool, MaxTags)

(* code points of 1, 2, 3 and 4 bytes in UTF-8, and a lone surrogate *)
MessageChars == {65, 233, 8364, 128308, 55296}

Messages == SeqsUpTo(MessageChars, MaxMessageLen)

Send(title, message, tags, transport) ==
    /\ notification' =
          [sent |-> TRUE, title |-> title, message |-> message,
           tags |-> tags, transport |-> transport,
           out |-> send_ntfy_notification(title, message, "default", tags,
                                          transport)]
    /\ UNCHANGED <<clock, TIME_WINDOW_MINUTES, restart_history,
                   last_log_collected, served, threads, classified, addons>>

(* one call; a call does not depend on the calls before it *)
NextNotifier ==
    /\ ~notification.sent
    /\ \E title \in Titles, message \in Messages, tags \in TagLists,
          transport \in Transports : Send(title, message, tags, transport)

(* the window, here the default one, plays no part in a notification *)
InitNotifier == Start /\ TIME_WINDOW_MINUTES = 60

SpecNotifier == InitNotifier /\ [][NextNotifier]_vars

----------------------------------------------------------------------------
(* The PVC monitor and the node-disk monitor.  Both read WARNING_THRESHOLD  *)
(* and CRITICAL_THRESHOLD at start-up and serve POST /check by measuring    *)
(* the items (bound PVCs, ready nodes), sorting them into two lists and     *)
(* sending one notification per non-empty list.  The measuring functions    *)
(* catch every exception and then return the empty list.                    *)

(* the defaults, a pair set the wrong way round, and an equal pair *)
ThresholdChoices == {<<80, 90>>, <<90, 80>>, <<85, 85>>}

UsageChoices == {79, 80, 89, 90, 95}

Usages == SeqsUpTo(UsageChoices, MaxItems)

(* what get_pvc_usage / get_node_disk_usage return: one entry per item *)
Measured(usage) ==
    [i \in 1..Len(usage) |-> [name |-> i, usage_percent |-> usage[i]]]

NoLists == [warnings |-> <<>>, criticals |-> <<>>]

(* two ifs instead of if / elif *)
PlaceInBoth(item, warning, critical, lists) ==
    LET c == IF item.usage_percent >= critical
             THEN [lists EXCEPT !.criticals = Append(@, item)] ELSE lists
    IN IF item.usage_percent >= warning
       THEN [c EXCEPT !.warnings = Append(@, item)] ELSE c

(* the body of the classification loop *)
Place(item, warning, critical, lists) ==
    IF item.usage_percent >= critical
    THEN [lists EXCEPT !.criticals = Append(@, item)]
    ELSE IF item.usage_percent >= warning
         THEN [lists EXCEPT !.warnings = Append(@, item)]
         ELSE lists

RECURSIVE PlaceFrom(_, _, _, _, _)
PlaceFrom(items, i, warning, critical, lists) ==
    IF i > Len(items) THEN lists
    ELSE PlaceFrom(items, i + 1, warning, critical,
                   Place(items[i], warning, critical, lists))

MonitorTitle == <<65, 76, 69, 82, 84>>

(* the messages start with a red circle and with a warning sign *)
CriticalMessage == <<128308, 32, 67>>

WarningMessage == <<9888, 65039, 32, 87>>

RotatingLight == <<114, 111, 116, 97, 116, 105, 110, 103, 95,
                   108, 105, 103, 104, 116>>

Cd == <<99, 100>>

(* one send_ntfy_notification call of a monitor, its result dropped *)
MonitorSend(message, priority, tags, listed, transport) ==
    LET sent == send_ntfy_notification(MonitorTitle, message, priority, tags,
                                       transport)
    IN [priority |-> priority, listed |-> listed, raised |-> sent.raised,
        delivered |-> sent.result]

(* check_pvc_storage and check_node_disk_space, which differ in the tags *)
CheckItems(service, usage, critical_tags, warning_tags, transport) ==
    LET items == Measured(usage)
        lists == PlaceFrom(items, 1, monitor_check.WARNING_THRESHOLD,
                           monitor_check.CRITICAL_THRESHOLD, NoLists)
        urgent == IF lists.criticals # <<>>
                  THEN <<MonitorSend(CriticalMessage, "urgent", critical_tags,
                                     lists.criticals, transport)>>
                  ELSE <<>>
        high == IF lists.warnings # <<>>
                THEN <<MonitorSend(WarningMessage, "high", warning_tags,
                                   lists.warnings, transport)>>
                ELSE <<>>
        sent == urgent \o high
        raised == \E i \in 1..Len(sent) : sent[i].raised
    IN monitor_check' =
          [service |-> service,
           WARNING_THRESHOLD |-> monitor_check.WARNING_THRESHOLD,
           CRITICAL_THRESHOLD |-> monitor_check.CRITICAL_THRESHOLD,
           items |-> items,
           warnings |-> lists.warnings,
           criticals |-> lists.criticals,
           sent |-> sent,
           response |-> IF raised THEN 500 ELSE 200,
           body |-> IF raised THEN [error |-> "str(e)"]
                    ELSE [total |-> Len(items),
                          warnings |-> Len(lists.warnings),
                          criticals |-> Len(lists.criticals)]]

check_pvc_storage(usage, transport) ==
    /\ CheckItems("pvc-monitor", usage, <<RotatingLight, Warning>>,
                  <<Warning>>, transport)
    /\ UNCHANGED <<clock, TIME_WINDOW_MINUTES, restart_history,
                   last_log_collected, served, threads, classified,
                   notification, drift_check, cert_event, health_run>>

check_node_disk_space(usage, transport) ==
    /\ CheckItems("node-disk-monitor", usage, <<RotatingLight, Warning, Cd>>,
                  <<Warning, Cd>>, transport)
    /\ UNCHANGED <<clock, TIME_WINDOW_MINUTES, restart_history,
                   last_log_collected, served, threads, classified,
                   notification, drift_check, cert_event, health_run>>

(* one check per run: a check does not depend on the checks before it *)
NextMonitors ==
    /\ monitor_check.service = "none"
    /\ \E usage \in Usages, transport \in Transports :
          \/ check_pvc_storage(usage, transport)
          \/ check_node_disk_space(usage, transport)

InitMonitors ==
    /\ TrackerStart /\ DriftStart /\ CertStart /\ HealthStart
    /\ TIME_WINDOW_MINUTES = 60
    /\ \E t \in ThresholdChoices : monitor_check = MonitorIdle(t[1], t[2])

SpecMonitors == InitMonitors /\ [][NextMonitors]_vars

----------------------------------------------------------------------------
(* The drift detector.  POST /check lists the ArgoCD applications and the   *)
(* deployments with the command-line client, sends one notification per     *)
(* non-empty finding and answers with the three counts.                     *)

SyncStatuses == {"Synced", "OutOfSync"}

HealthStatuses == {"Healthy", "Degraded"}

Apps == [sync_status : SyncStatuses, health_status : HealthStatuses]

(* what the listing of the applications can come to: a non-zero exit, an   *)
(* exception (time-out, output that is not JSON), or the applications      *)
ArgoOutcomes ==
    {[kind |-> "nonzero"], [kind |-> "raised"]}
      \cup {[kind |-> "listed", apps |-> a] : a \in SeqsUpTo(Apps, MaxApps)}

(* the listing of the deployments: failed, or so many unmanaged ones *)
DeploymentOutcomes ==
    {[kind |-> "nonzero"], [kind |-> "raised"]}
      \cup {[kind |-> "listed", unmanaged |-> n] : n \in 0..MaxUnmanaged}

OutOfSync(app) == app.sync_status # "Synced"

Degraded(app) == app.health_status = "Degraded"

NoFindings == [is_mapping |-> TRUE, out_of_sync |-> <<>>, degraded |-> <<>>]

(* line 68 returns the empty list, not a mapping, on a non-zero exit *)
check_argocd_sync_status(argo) ==
    IF argo.kind = "nonzero"
    THEN [is_mapping |-> FALSE, list |-> <<>>]
    ELSE IF argo.kind = "raised"
         THEN NoFindings
         ELSE [is_mapping |-> TRUE,
               out_of_sync |-> SelectSeq(argo.apps, OutOfSync),
               degraded |-> SelectSeq(argo.apps, Degraded)]

detect_manual_changes(deployments) ==
    IF deployments.kind = "listed" THEN deployments.unmanaged ELSE 0

DriftSend(priority, about, transport) ==
    LET sent == send_ntfy_notification(MonitorTitle, WarningMessage, priority,
                                       <<Warning>>, transport)
    IN [priority |-> priority, about |-> about, raised |-> sent.raised,
        delivered |-> sent.result]

(* the result of check_deployment_drift; indexing the list that line 68    *)
(* returned with the key out_of_sync raises TypeError at line 166          *)
check_deployment_drift(argo, deployments, transport) ==
    LET argocd_status == check_argocd_sync_status(argo)
        manual_changes == detect_manual_changes(deployments)
    IN IF ~argocd_status.is_mapping
       THEN [raised |-> TRUE, sent |-> <<>>]
       ELSE LET sent ==
                   (IF argocd_status.out_of_sync # <<>>
                    THEN <<DriftSend("high", "out_of_sync", transport)>>
                    ELSE <<>>)
                   \o (IF argocd_status.degraded # <<>>
                       THEN <<DriftSend("urgent", "degraded", transport)>>
                       ELSE <<>>)
                   \o (IF manual_changes # 0
                       THEN <<DriftSend("high", "manual_changes", transport)>>
                       ELSE <<>>)
            IN [raised |-> \E i \in 1..Len(sent) : sent[i].raised,
                sent |-> sent,
                result |-> [out_of_sync |-> Len(argocd_status.out_of_sync),
                            degraded |-> Len(argocd_status.degraded),
                            manual_changes |-> manual_changes]]

(* POST /check of the drift detector *)
drift_check_route(argo, deployments, transport) ==
    /\ \E r \in {check_deployment_drift(argo, deployments, transport)} :
          drift_check' =
             [checked |-> TRUE, argo |-> argo, deployments |-> deployments,
              sent |-> r.sent,
              response |-> IF r.raised THEN 500 ELSE 200,
              body |-> IF r.raised THEN [error |-> "str(e)"] ELSE r.result]
    /\ UNCHANGED <<clock, TIME_WINDOW_MINUTES, restart_history,
                   last_log_collected, served, threads, classified,
                   notification, monitor_check, cert_event, health_run>>

NextDrift ==
    /\ ~drift_check.checked
    /\ \E argo \in ArgoOutcomes, deployments \in DeploymentOutcomes,
          transport \in Transports :
          drift_check_route(argo, deployments, transport)

InitDrift == Start /\ TIME_WINDOW_MINUTES = 60

SpecDrift == InitDrift /\ [][NextDrift]_vars

----------------------------------------------------------------------------
(* The cert-automation service.  POST / takes a CloudEvent about an         *)
(* Ingress and, when one of its hosts contains BASE_DOMAIN, copies the CA   *)
(* to every node of NODE_IPS over SSH.  Text is a sequence of code points.  *)

(* "k.b" stands for the configured domain *)
BASE_DOMAIN == <<107, 46, 98>>

(* no host, "a.k.b", "k.b.x" (the domain is not a suffix) and "x.y" *)
HostChoices ==
    {<<>>, <<97, 46, 107, 46, 98>>, <<107, 46, 98, 46, 120>>, <<120, 46, 121>>}

(* spec.rules of the Ingress, each rule given by its host *)
RuleLists == SeqsUpTo(HostChoices, MaxRules)

(* the entries of NODE_IPS after the split at the commas *)
NodeEntries == {"", " ", "10.0.0.1", "10.0.0.2"}

NodeIpChoices == SeqsUpTo(NodeEntries, MaxNodes) \ {<<>>}

(* str.strip() on these entries *)
Strip(entry) == IF entry = " " THEN "" ELSE entry

(* what happens on a node: the CA is installed; a command exits non-zero   *)
(* (logged only); SSH or SFTP raises                                       *)
NodeOutcomes == {"installed", "command_failed", "unreachable"}

NodeStates == [{"10.0.0.1", "10.0.0.2"} -> NodeOutcomes]

(* sub in s, for strings *)
IsSubstring(sub, str) ==
    \E i \in 0..(Len(str) - Len(sub)) : SubSeq(str, i + 1, i + Len(sub)) = sub

NonEmpty(host) == host # <<>>

InBaseDomain(host) == IsSubstring(BASE_DOMAIN, host)

distribute_ca_to_node(node_ip, nodes) ==
    [node |-> node_ip, outcome |-> nodes[node_ip],
     result |-> nodes[node_ip] # "unreachable"]

(* a loop that gives up at the first node that fails *)
RECURSIVE DistributeUntilFailure(_, _, _, _)
DistributeUntilFailure(node_ips, i, nodes, results) ==
    IF i > Len(node_ips) THEN results
    ELSE IF Strip(node_ips[i]) = ""
         THEN DistributeUntilFailure(node_ips, i + 1, nodes, results)
         ELSE LET r == distribute_ca_to_node(Strip(node_ips[i]), nodes)
              IN IF r.result
                 THEN DistributeUntilFailure(node_ips, i + 1, nodes,
                                             Append(results, r))
                 ELSE Append(results, r)

(* the loop over NODE_IPS: blank entries are skipped *)
RECURSIVE DistributeFrom(_, _, _, _)
DistributeFrom(node_ips, i, nodes, results) ==
    IF i > Len(node_ips) THEN results
    ELSE IF Strip(node_ips[i]) = ""
         THEN DistributeFrom(node_ips, i + 1, nodes, results)
         ELSE DistributeFrom(node_ips, i + 1, nodes,
                 Append(results,
                        distribute_ca_to_node(Strip(node_ips[i]), nodes)))

(* ca is "read" or "missing": open(MKCERT_CA_PATH) may raise *)
process_ingress_event(rules, ca, nodes) ==
    LET hostnames == SelectSeq(rules, NonEmpty)
        should_process == \E i \in 1..Len(hostnames) : InBaseDomain(hostnames[i])
    IN IF ~should_process
       THEN [success |-> TRUE, results |-> <<>>]
       ELSE IF ca = "missing"
            THEN [success |-> FALSE, results |-> <<>>]
            ELSE LET results == DistributeFrom(cert_event.NODE_IPS, 1, nodes, <<>>)
                 IN [success |-> \E i \in 1..Len(results) : results[i].result,
                     results |-> results]

(* POST / *)
handle_event(decodable, rules, ca, nodes) ==
    /\ \E p \in {IF decodable THEN process_ingress_event(rules, ca, nodes)
                  ELSE [success |-> FALSE, results |-> <<>>]} :
          cert_event' =
             [handled |-> TRUE, NODE_IPS |-> cert_event.NODE_IPS,
              decodable |-> decodable,
              rules |-> IF decodable THEN rules ELSE <<>>,
              ca |-> ca,
              results |-> p.results,
              response |-> IF p.success THEN 200 ELSE 500,
              body |-> [status |-> IF p.success THEN "ok" ELSE "error"]]
    /\ UNCHANGED <<clock, TIME_WINDOW_MINUTES, restart_history,
                   last_log_collected, served, threads, classified,
                   notification, monitor_check, drift_check, health_run>>

NextCert ==
    /\ ~cert_event.handled
    /\ \E decodable \in BOOLEAN, rules \in RuleLists, ca \in {"read", "missing"},
          nodes \in NodeStates : handle_event(decodable, rules, ca, nodes)

InitCert ==
    /\ TrackerStart /\ MonitorStart /\ DriftStart /\ HealthStart
    /\ TIME_WINDOW_MINUTES = 60
    /\ \E node_ips \in NodeIpChoices : cert_event = CertIdle(node_ips)

SpecCert == InitCert /\ [][NextCert]_vars

----------------------------------------------------------------------------
(* The health-check service.  POST /check runs four groups of checks, puts  *)
(* their results in a dictionary, collects the names of the failed ones     *)
(* and sends one notification when there are any.  A result is modelled by  *)
(* whether it has a success entry, that entry, and its dictionary-valued    *)
(* entries (the sub-checks), in insertion order.                            *)

TestDomains == <<"kubernetes.default", "kube-dns.kube-system">>

(* entries of CRITICAL_SERVICES; one without a colon, which is skipped *)
ServiceEntries ==
    {"kubernetes.default.svc.cluster.local:443",
     "kube-dns.kube-system.svc.cluster.local:53", "no-port"}

HasPort(service) == service # "no-port"

ServiceChoices == SeqsUpTo(ServiceEntries, MaxServices) \ {<<>>}

(* which of the probes succeed *)
DnsStates == [{TestDomains[i] : i \in 1..Len(TestDomains)} -> BOOLEAN]

TcpStates == [{e \in ServiceEntries : HasPort(e)} -> BOOLEAN]

(* a result with a success entry and no dictionary among its values *)
Single(name, success) ==
    [name |-> name, has_success |-> TRUE, success |-> success, subs |-> <<>>]

(* a dictionary of results keyed by domain or service *)
Group(name, subs) ==
    [name |-> name, has_success |-> FALSE, success |-> TRUE, subs |-> subs]

(* d[key] = value on a dictionary kept as a sequence of entries *)
SetEntry(d, key, value) ==
    IF \E i \in 1..Len(d) : d[i].name = key
    THEN [i \in 1..Len(d) |-> IF d[i].name = key
                              THEN [name |-> key, success |-> value]
                              ELSE d[i]]
    ELSE Append(d, [name |-> key, success |-> value])

RECURSIVE DnsFrom(_, _, _)
DnsFrom(i, dns, d) ==
    IF i > Len(TestDomains) THEN d
    ELSE DnsFrom(i + 1, dns, SetEntry(d, TestDomains[i], dns[TestDomains[i]]))

RECURSIVE ServicesFrom(_, _, _, _)
ServicesFrom(services, i, tcp, d) ==
    IF i > Len(services) THEN d
    ELSE ServicesFrom(services, i + 1, tcp,
                      IF HasPort(services[i])
                      THEN SetEntry(d, services[i], tcp[services[i]])
                      ELSE d)

(* results["checks"] *)
Checks(api, dns, tcp, node) ==
    <<Single("kubernetes_api", api),
      Group("dns", DnsFrom(1, dns, <<>>)),
      Group("critical_services",
            ServicesFrom(health_run.CRITICAL_SERVICES, 1, tcp, <<>>)),
      Single("node_connectivity", node)>>

(* check_results.get("success", True) *)
GetSuccess(result) == IF result.has_success THEN result.success ELSE TRUE

(* an analysis that leaves the sub-checks out *)
NoSubFailures(category, subs, i) == <<>>

(* the names category.subcheck of the failed sub-checks, from the i-th on *)
RECURSIVE SubFailures(_, _, _)
SubFailures(category, subs, i) ==
    IF i > Len(subs) THEN <<>>
    ELSE (IF ~subs[i].success THEN << <<category, subs[i].name>> >> ELSE <<>>)
           \o SubFailures(category, subs, i + 1)

RECURSIVE FailedFrom(_, _)
FailedFrom(checks, i) ==
    IF i > Len(checks) THEN <<>>
    ELSE (IF ~GetSuccess(checks[i]) THEN << <<checks[i].name>> >> ELSE <<>>)
           \o SubFailures(checks[i].name, checks[i].subs, 1)
           \o FailedFrom(checks, i + 1)

HealthTitle == <<87, 65, 82, 78>>

HealthWorker == <<104, 101, 97, 108, 116, 104, 95, 119, 111, 114, 107, 101, 114>>

perform_health_check(api, dns, tcp, node, transport) ==
    LET checks == Checks(api, dns, tcp, node)
        failed_checks == FailedFrom(checks, 1)
        sent == IF failed_checks # <<>>
                THEN LET out == send_ntfy_notification(
                                   HealthTitle, AlertMessage, "high",
                                   <<Warning, HealthWorker>>, transport)
                     IN <<[priority |-> "high", listed |-> failed_checks,
                           raised |-> out.raised, delivered |-> out.result]>>
                ELSE <<>>
    IN [raised |-> \E i \in 1..Len(sent) : sent[i].raised,
        results |-> [cluster |-> "CLUSTER_NAME", checks |-> checks],
        failed_checks |-> failed_checks,
        sent |-> sent]

(* POST /check; the view has no try / except *)
run_check(api, dns, tcp, node, transport) ==
    /\ \E r \in {perform_health_check(api, dns, tcp, node, transport)} :
          health_run' =
             [checked |-> TRUE,
              CRITICAL_SERVICES |-> health_run.CRITICAL_SERVICES,
              probes |-> [api |-> api, dns |-> dns, tcp |-> tcp, node |-> node],
              failed_checks |-> r.failed_checks,
              sent |-> r.sent,
              response |-> IF r.raised THEN 500 ELSE 200,
              body |-> IF r.raised THEN [error |-> "Internal Server Error"]
                       ELSE r.results]
    /\ UNCHANGED <<clock, TIME_WINDOW_MINUTES, restart_history,
                   last_log_collected, served, threads, classified,
                   notification, monitor_check, drift_check, cert_event>>

NextHealth ==
    /\ ~health_run.checked
    /\ \E api \in BOOLEAN, dns \in DnsStates, tcp \in TcpStates,
          node \in BOOLEAN, transport \in Transports :
          run_check(api, dns, tcp, node, transport)

InitHealth ==
    /\ TrackerStart /\ MonitorStart /\ DriftStart /\ CertStart
    /\ TIME_WINDOW_MINUTES = 60
    /\ \E services \in ServiceChoices \cup {DefaultCriticalServices} :
          health_run = HealthIdle(services)

SpecHealth == InitHealth /\ [][NextHealth]_vars

----------------------------------------------------------------------------
(* Properties *)

WindowSeconds == TIME_WINDOW_MINUTES * SECONDS_PER_MINUTE

(* the sequence kept under the key of a call, once its request is answered *)
KeptBy(call) == restart_history[call.pod_key]

ElapsedSeconds(h) == h[Len(h)].timestamp - h[1].timestamp

Observation(call) ==
    [timestamp |-> call.now, restart_count |-> call.restart_count]

(* C1: when analyze_restart_pattern leaves n >= 2 observations whose first  *)
(* and last timestamps are elapsed_minutes > 0 apart, the rate it returns   *)
(* is (n - 1) / elapsed_minutes.                                            *)
C1_RateCountsIntervals ==
    \A i \in 1..Len(calls) :
        LET h == KeptBy(calls[i])
            rate == calls[i].restart_rate
        IN (Len(h) >= 2 /\ ElapsedSeconds(h) > 0)
           => rate.num * ElapsedSeconds(h)
                = (Len(h) - 1) * SECONDS_PER_MINUTE * rate.den

(* C2: the rate is 0 when at most one observation is kept, and when the     *)
(* first and the last kept observation carry the same timestamp; the        *)
(* denominator of a returned rate is never 0.                               *)
C2_ZeroRateWithoutSpan ==
    \A i \in 1..Len(calls) :
        LET h == KeptBy(calls[i])
            rate == calls[i].restart_rate
        IN /\ rate.den # 0
           /\ (Len(h) <= 1 \/ ElapsedSeconds(h) = 0) => rate.num = 0

C2_Witness ==
    \E i \in 1..Len(calls) :
        /\ Len(KeptBy(calls[i])) >= 2
        /\ ElapsedSeconds(KeptBy(calls[i])) = 0
        /\ calls[i].restart_rate.num = 0

(* C3: right after a record call made at time now, the sequence of its key  *)
(* holds no observation older than now - window.                            *)
C3_NothingOlderThanWindow ==
    \A i \in 1..Len(calls) :
        \A j \in 1..Len(KeptBy(calls[i])) :
            KeptBy(calls[i])[j].timestamp >= calls[i].now - WindowSeconds

(* window of 5 minutes, events at t = 0 and t = 10 min: one observation is  *)
(* kept and the rate is 0                                                   *)
C3_Witness ==
    /\ TIME_WINDOW_MINUTES = 5
    /\ \E i \in 1..Len(calls) :
          /\ calls[i].now = 600
          /\ Len(calls[i].before) = 1
          /\ calls[i].before[1].timestamp = 0
          /\ Len(KeptBy(calls[i])) = 1
          /\ calls[i].restart_rate.num = 0

(* C4: a record call keeps the previous sequence plus the new observation   *)
(* restricted to timestamps >= now - window, in the same order, so an       *)
(* observation whose timestamp equals now - window is kept.                 *)
C4_KeepsBoundaryObservation ==
    \A i \in 1..Len(calls) :
        KeptBy(calls[i])
          = SelectSeq(Append(calls[i].before, Observation(calls[i])),
                      LAMBDA r : r.timestamp >= calls[i].now - WindowSeconds)

(* C6: two log fetches for the same key are more than 300 seconds apart,    *)
(* whatever the fetch returned; stated of the fetches of one request and    *)
(* of the request served next.                                              *)
C6_FetchesSpaced ==
    [][(request'.route = "/pods" /\ clock' = clock)
       => \A i \in 1..Len(notified), j \in 1..Len(notified') :
            (/\ notified[i].fetched
             /\ notified'[j].fetched
             /\ notified[i].pod_key = notified'[j].pod_key)
            => notified'[j].at - notified[i].at > LOG_INTERVAL_SECONDS]_vars

(* C7: a POST /pods answered 500 has changed neither the restart history    *)
(* nor the last-log-fetch map.                                              *)
C7_FailureLeavesStoreAlone ==
    [][(request'.route = "/pods" /\ response' = 500 /\ clock' = clock)
       => /\ restart_history' = restart_history
          /\ last_log_collected' = last_log_collected]_vars

Alerted(event) ==
    SelectSeq(event.containers,
              LAMBDA c : c.restartCount >= RESTART_THRESHOLD)

AlertedKeys(event) ==
    [i \in 1..Len(Alerted(event)) |->
        PodKey(event.namespace, event.name, Alerted(event)[i].name)]

Completed == request.route = "/pods" /\ response = 200

(* a snapshot processed to the end has made one record call and sent one    *)
(* notification for each container whose restart count is >=                *)
(* RESTART_THRESHOLD, in order, under the key built from namespace, pod and *)
(* container name                                                           *)
C8_RecordsAndNotifies ==
    Completed =>
       /\ [i \in 1..Len(calls) |-> calls[i].pod_key] = AlertedKeys(request.event)
       /\ [i \in 1..Len(notified) |-> notified[i].pod_key]
             = AlertedKeys(request.event)
       /\ \A i \in 1..Len(calls) :
             /\ KeptBy(calls[i])[Len(KeptBy(calls[i]))] = Observation(calls[i])
             /\ calls[i].restart_count = Alerted(request.event)[i].restartCount
             /\ Len(KeptBy(calls[i])) <= Len(calls[i].before) + 1

KeysOf(q) == {q[i] : i \in 1..Len(q)}

LastLogOf(lastlog, pod_key) ==
    IF pod_key \in DOMAIN lastlog THEN <<lastlog[pod_key]>> ELSE <<>>

C8_BelowThresholdInert ==
    [][(Completed' /\ clock' = clock)
       => /\ \A k \in (DOMAIN restart_history' \cup DOMAIN last_log_collected')
                         \ KeysOf(AlertedKeys(request'.event)) :
                /\ k \in DOMAIN restart_history <=> k \in DOMAIN restart_history'
                /\ HistoryOf(restart_history', k) = HistoryOf(restart_history, k)
                /\ LastLogOf(last_log_collected', k)
                     = LastLogOf(last_log_collected, k)
          /\ Len(notified') = Len(Alerted(request'.event))]_vars

Rank(priority) ==
    CASE priority = "default" -> 0
      [] priority = "high"    -> 1
      [] priority = "max"     -> 2

(* C9: the priority depends on the restart count only: above 20 it is      *)
(* "max", above 10 and up to 20 "high", up to 10 "default"; it never        *)
(* decreases when the count grows.                                          *)
C9_SeverityByCount ==
    /\ \A i \in 1..Len(classified) :
          LET count == classified[i].restart_count
          IN classified[i].priority
               = IF count > 20 THEN "max"
                 ELSE IF count > 10 THEN "high" ELSE "default"
    /\ \A i, j \in 1..Len(classified) :
          classified[i].restart_count <= classified[j].restart_count
          => Rank(classified[i].priority) <= Rank(classified[j].priority)

C9_Witness ==
    /\ Len(classified) = 2
    /\ classified[1] = [restart_count |-> 10, priority |-> "default"]
    /\ classified[2] = [restart_count |-> 20, priority |-> "high"]

Sorted(h) ==
    \A i, j \in 1..Len(h) : i <= j => h[i].timestamp <= h[j].timestamp

AllDone == \A t \in Threads : threads[t].pc = "done"

InsideWindow ==
    \A t, u \in Threads : threads[t].now > threads[u].now - WindowSeconds

(* the rates a serial run of the two requests returns, t first *)
SerialRates(t, u) ==
    LET first == <<[timestamp |-> threads[t].now,
                    restart_count |-> threads[t].restart_count]>>
        both == Append(first, [timestamp |-> threads[u].now,
                               restart_count |-> threads[u].restart_count])
    IN threads[t].restart_rate = RestartRate(first)
       /\ threads[u].restart_rate = RestartRate(both)

(* C5: two ingests of one key served concurrently behave as one after the   *)
(* other: both observations, being inside the window, are in the key's      *)
(* sequence when both are done, and the rates are those of a serial order.  *)
C5_ConcurrentIngestsSerializable ==
    (AllDone /\ InsideWindow) =>
       /\ Len(HistoryOf(restart_history, SharedKey)) = 2
       /\ \E t, u \in Threads : t # u /\ SerialRates(t, u)

(* C10: every key's sequence is sorted ascending by timestamp in every      *)
(* reachable state, requests served concurrently included.                  *)
C10_HistorySorted ==
    \A k \in DOMAIN restart_history : Sorted(restart_history[k])

(* C11: after an ingest served at time now, no sequence of the restart      *)
(* history, under whatever key, holds an observation older than            *)
(* now - window.                                                            *)
C11_NothingStaleAnywhere ==
    \A i \in 1..Len(calls) :
        \A k \in DOMAIN restart_history :
            \A j \in 1..Len(restart_history[k]) :
                restart_history[k][j].timestamp >= calls[i].now - WindowSeconds

HasBadState(event) ==
    \E i \in 1..Len(event.containers) : event.containers[i].shape = "badstate"

(* C12: a notification that was not delivered (requests.post answered      *)
(* another status than 200, or raised) leaves the ingest as it is with a   *)
(* working notifier: the observation is recorded, the containers after it  *)
(* are processed, and the snapshot is answered 200 {status: ok}.           *)
C12_NotifierFailureIgnored ==
    \A i \in 1..Len(notified) :
        ~notified[i].delivered =>
           /\ calls[i].pod_key = notified[i].pod_key
           /\ KeptBy(calls[i])[Len(KeptBy(calls[i]))] = Observation(calls[i])
           /\ i < Len(Alerted(request.event)) => Len(calls) > i
           /\ ~HasBadState(request.event) =>
                 /\ response = 200
                 /\ body = [status |-> "ok"]
                 /\ Len(notified) = Len(Alerted(request.event))

C12_Witness ==
    /\ request.route = "/pods"
    /\ response = 200
    /\ Len(calls) = 2
    /\ Len(notified) = 2
    /\ ~notified[1].delivered
    /\ ~notified[2].delivered

LogFetchFailed(note) == note.fetched /\ note.cli \in {"nonzero", "raised"}

(* C13: when the log fetch fails (kubectl exits non-zero, times out or     *)
(* cannot be run) get_pod_logs returns a placeholder text, the             *)
(* notification of the container is still sent, the containers after it    *)
(* are processed and the snapshot is answered 200.                         *)
C13_LogFailureIgnored ==
    /\ \A i \in 1..Len(calls) :
          (i > Len(notified))
          => (i = Len(calls) /\ Alerted(request.event)[i].shape = "badstate")
    /\ \A i \in 1..Len(notified) :
          LogFetchFailed(notified[i]) =>
             /\ notified[i].logs \in {"Erro ao coletar logs: stderr",
                                       "Logs nao disponiveis"}
             /\ calls[i].pod_key = notified[i].pod_key
             /\ KeptBy(calls[i])[Len(KeptBy(calls[i]))] = Observation(calls[i])
             /\ i < Len(Alerted(request.event)) => Len(calls) > i
             /\ ~HasBadState(request.event) =>
                   /\ response = 200
                   /\ Len(notified) = Len(Alerted(request.event))

C13_Witness ==
    /\ request.route = "/pods"
    /\ response = 200
    /\ Len(notified) = 2
    /\ notified[1].cli = "raised"
    /\ notified[2].cli = "raised"
    /\ notified[2].logs = "Logs nao disponiveis"

(* C14: send_ntfy_notification never raises, and having handed a request   *)
(* to requests.post it returns false exactly when that answered a status   *)
(* outside 200..299 or raised.                                             *)
C14_FalseOnlyOnTransportFailure ==
    (notification.sent /\ notification.out.post.posted) =>
       /\ ~notification.out.raised
       /\ ~notification.out.result
             <=> \/ notification.transport.raised
                 \/ notification.transport.status_code \notin 200..299

RECURSIVE WithoutNonAscii(_)
WithoutNonAscii(text) ==
    IF text = <<>> THEN <<>>
    ELSE IF Head(text) <= 127
         THEN <<Head(text)>> \o WithoutNonAscii(Tail(text))
         ELSE WithoutNonAscii(Tail(text))

(* the tags of a Tags header: the texts between its commas *)
RECURSIVE SplitAt(_, _, _)
SplitAt(text, sep, current) ==
    IF text = <<>> THEN <<current>>
    ELSE IF Head(text) = sep
         THEN <<current>> \o SplitAt(Tail(text), sep, <<>>)
         ELSE SplitAt(Tail(text), sep, Append(current, Head(text)))

TagsOf(post) == IF post.has_tags THEN SplitAt(post.Tags, 44, <<>>) ELSE <<>>

(* the code points of a UTF-8 byte sequence *)
RECURSIVE Utf8Decode(_)
Utf8Decode(bytes) ==
    IF bytes = <<>> THEN <<>>
    ELSE LET b == Head(bytes)
             n == IF b < 128 THEN 1 ELSE IF b < 224 THEN 2
                  ELSE IF b < 240 THEN 3 ELSE 4
             lead == IF n = 1 THEN b ELSE IF n = 2 THEN b - 192
                     ELSE IF n = 3 THEN b - 224 ELSE b - 240
             c == IF n = 1 THEN lead
                  ELSE IF n = 2 THEN lead * 64 + (bytes[2] - 128)
                  ELSE IF n = 3
                       THEN lead * 4096 + (bytes[2] - 128) * 64 + (bytes[3] - 128)
                       ELSE lead * 262144 + (bytes[2] - 128) * 4096
                              + (bytes[3] - 128) * 64 + (bytes[4] - 128)
         IN <<c>> \o Utf8Decode(SubSeq(bytes, n + 1, Len(bytes)))

HeadersStripped ==
    LET post == notification.out.post
    IN /\ post.Title = WithoutNonAscii(notification.title)
       /\ TagsOf(post) = [i \in 1..Len(notification.tags) |->
                            WithoutNonAscii(notification.tags[i])]
       /\ \A i \in 1..Len(post.Title) : post.Title[i] <= 127
       /\ \A i \in 1..Len(post.Tags) : post.Tags[i] <= 127

BodyWhole ==
    LET post == notification.out.post
    IN /\ \A i \in 1..Len(post.data) : post.data[i] \in 0..255
       /\ Utf8Decode(post.data) = notification.message

(* C15 as claimed: whatever title, tags and message are given, the request *)
(* handed to the transport carries the title and each tag without their    *)
(* non-ASCII characters, and the whole message in UTF-8.                   *)
C15_HeadersAsciiBodyUtf8 ==
    notification.sent =>
       /\ notification.out.post.posted
       /\ HeadersStripped
       /\ BodyWhole

(* C15: when the message has a UTF-8 encoding the request handed to the    *)
(* transport carries the title and each tag without their non-ASCII        *)
(* characters, order kept, and the whole message in UTF-8; a message with  *)
(* a lone surrogate is not handed to the transport and false is returned.  *)
C15_HeadersAsciiBodyUtf8WhenEncodable ==
    notification.sent =>
       IF Encodable(notification.message)
       THEN /\ notification.out.post.posted
            /\ HeadersStripped
            /\ BodyWhole
       ELSE /\ ~notification.out.post.posted
            /\ ~notification.out.result

C15_Witness ==
    /\ notification.sent
    /\ notification.title = <<128308, 67>>
    /\ notification.tags = <<Siren, <<119, 128680, 97>> >>
    /\ notification.message = <<8364>>
    /\ notification.out.post.Title = <<67>>
    /\ notification.out.post.Tags = <<44, 119, 97>>
    /\ notification.out.post.data = <<226, 130, 172>>

(* C16: the title made of U+1F534 and " CRITICAL" is handed to the         *)
(* transport as "CRITICAL", and the tags ["warning", U+1F6A8] as the       *)
(* single tag "warning".                                                   *)
C16_EmojiExamples ==
    notification.sent /\ notification.out.post.posted =>
       /\ notification.title = CriticalTitle
             => notification.out.post.Title = <<67, 82, 73, 84, 73, 67, 65, 76>>
       /\ notification.tags = <<Warning, Siren>>
             => TagsOf(notification.out.post) = <<Warning>>

(* C17: POST /pods answers 200 with {status: "ok"} when the ingest          *)
(* succeeded and otherwise 500 with a body that has status "error" and a   *)
(* message field.                                                          *)
C17_ErrorBodyHasMessage ==
    request.route = "/pods" =>
       IF response = 200
       THEN body = [status |-> "ok"]
       ELSE /\ response = 500
            /\ body.status = "error"
            /\ "message" \in DOMAIN body

ReadRoutes == {"/health", "/stats", "/test"}

HealthCountsKeys ==
    request.route = "/health" =>
       /\ response = 200
       /\ body.tracked_pods = Cardinality(DOMAIN restart_history)

KeysGrowByRecords ==
    [][/\ DOMAIN restart_history \subseteq DOMAIN restart_history'
       /\ (request'.route = "/pods" /\ clock' = clock)
            => DOMAIN restart_history'
                 = DOMAIN restart_history
                     \cup {calls'[i].pod_key : i \in 1..Len(calls')}
       /\ request'.route \in ReadRoutes
            => DOMAIN restart_history' = DOMAIN restart_history]_vars

(* C18: no request removes a key of the restart history: POST /pods adds   *)
(* the keys it records, the other routes leave the key set as it is, and   *)
(* GET /health reports as tracked_pods the number of keys, which is the    *)
(* number of distinct keys recorded since start.                           *)
C18_KeysOnlyGrow == []HealthCountsKeys /\ KeysGrowByRecords

C18_Witness ==
    /\ request.route = "/health"
    /\ body.tracked_pods = 2
    /\ clock = 600
    /\ TIME_WINDOW_MINUTES = 5

(* C19: GET /stats, GET /health and POST /test change neither the restart  *)
(* history nor the last-log map; reading the snapshot creates no key.      *)
C19_ReadRoutesChangeNothing ==
    [][(request'.route \in ReadRoutes /\ clock' = clock)
       => /\ restart_history' = restart_history
          /\ last_log_collected' = last_log_collected]_vars

C19_Witness ==
    /\ request.route = "/stats"
    /\ DOMAIN body # {}
    /\ DOMAIN restart_history = DOMAIN body
    /\ DOMAIN last_log_collected # {}

(* C20 as claimed: the snapshot of GET /stats has an entry for every key   *)
(* of the restart history, with total_events the length of the key's       *)
(* sequence and last_restart_count and last_seen those of its last         *)
(* observation.                                                            *)
C20_SnapshotCoversEveryKey ==
    request.route = "/stats" =>
       \A k \in DOMAIN restart_history :
          /\ k \in DOMAIN body
          /\ body[k].total_events = Len(restart_history[k])
          /\ body[k].last_restart_count
               = restart_history[k][Len(restart_history[k])].restart_count
          /\ body[k].last_seen
               = isoformat(restart_history[k][Len(restart_history[k])].timestamp)

(* C20: the snapshot of GET /stats has an entry exactly for the keys whose *)
(* sequence is not empty, with total_events the length of the sequence     *)
(* and last_restart_count and last_seen those of its last observation; a   *)
(* key whose sequence is empty is left out.                                *)
C20_SnapshotCoversNonEmptyKeys ==
    request.route = "/stats" =>
       /\ response = 200
       /\ DOMAIN body \subseteq DOMAIN restart_history
       /\ \A k \in DOMAIN restart_history :
             IF restart_history[k] = <<>>
             THEN k \notin DOMAIN body
             ELSE /\ k \in DOMAIN body
                  /\ body[k].total_events = Len(restart_history[k])
                  /\ body[k].last_restart_count
                       = restart_history[k][Len(restart_history[k])].restart_count
                  /\ body[k].last_seen
                       = isoformat(
                           restart_history[k][Len(restart_history[k])].timestamp)

C20_Witness ==
    /\ request.route = "/stats"
    /\ \E k \in DOMAIN body :
          /\ body[k].total_events = 2
          /\ body[k].last_seen = isoformat(300)
          /\ restart_history[k][1].timestamp = 0

TestAnswered ==
    request.route = "/test" =>
       /\ response = 200
       /\ body = [status |-> "ok", message |-> "Test notification sent"]
       /\ Len(notified) = 1
       /\ calls = <<>>

TestLeavesTracker ==
    [][(request'.route = "/test" /\ clock' = clock)
       => /\ restart_history' = restart_history
          /\ last_log_collected' = last_log_collected
          /\ TIME_WINDOW_MINUTES' = TIME_WINDOW_MINUTES]_vars

(* C21: POST /test makes one notification attempt and answers 200, also    *)
(* when requests.post answers another status than 200 or raises, and it    *)
(* leaves the restart history, the last-log map and the configuration as   *)
(* they are.                                                               *)
C21_TestAlwaysOk == []TestAnswered /\ TestLeavesTracker

C21_Witness ==
    /\ request.route = "/test"
    /\ response = 200
    /\ ~notified[1].delivered
    /\ DOMAIN restart_history # {}
    /\ DOMAIN last_log_collected # {}

(* C23: of two requests for one key served concurrently at most one        *)
(* fetches the logs: two fetches of the key are more than 300 seconds      *)
(* apart (every fetch here returns log lines).                             *)
C23_OneConcurrentFetch ==
    \A t, u \in Threads :
        (t # u /\ threads[t].fetched /\ threads[u].fetched
               /\ threads[t].fetch_at <= threads[u].fetch_at)
        => threads[u].fetch_at - threads[t].fetch_at > LOG_INTERVAL_SECONDS

(* C22: every POST /pods is answered, with status 200 or 500, whatever     *)
(* the envelope holds and whatever kubectl and the notifier do.            *)
C22_EveryRequestAnswered ==
    \A t \in Workers :
        (threads[t].pc # "idle")
           ~> (threads[t].pc = "done" /\ threads[t].status \in {200, 500})

Recorded(t) ==
    LET h == HistoryOf(restart_history, threads[t].pod_key)
    IN /\ h # <<>>
       /\ h[Len(h)] = [timestamp |-> threads[t].now,
                       restart_count |-> threads[t].restart_count]
       /\ threads[t].restart_rate = RestartRate(h)

C25_NoEmptySequence ==
    TIME_WINDOW_MINUTES >= 1 =>
       \A k \in DOMAIN restart_history : restart_history[k] # <<>>

(* the older observation of a key has been pruned and the new one is kept *)
C25_Witness ==
    /\ TIME_WINDOW_MINUTES = 5
    /\ request.route = "/pods"
    /\ \E i \in 1..Len(calls) :
          /\ calls[i].now = 600
          /\ Len(calls[i].before) = 1
          /\ calls[i].before[1].timestamp = 0
          /\ KeptBy(calls[i]) = <<Observation(calls[i])>>

(* the keys of the record calls made by the request being answered *)
RecordedKeys(cs) == {cs[i].pod_key : i \in 1..Len(cs)}

(* the keys whose logs the request being answered fetched and found *)
LoggedKeys(ns) == {ns[i].pod_key : i \in {j \in 1..Len(ns) : ns[j].fetched /\ ns[j].logs # ""}}

(* C26: a record call for a key changes the sequence of that key only:     *)
(* the sequences of the other keys stay as they were, and the last-log map *)
(* is not touched by recording (it changes only where logs were fetched).  *)
C26_RecordTouchesOnlyItsKey ==
    [][(request'.route = "/pods" /\ clock' = clock) =>
         /\ \A k \in DOMAIN restart_history \ RecordedKeys(calls') :
               /\ k \in DOMAIN restart_history'
               /\ restart_history'[k] = restart_history[k]
         /\ DOMAIN restart_history' \subseteq DOMAIN restart_history \cup RecordedKeys(calls')
         /\ \A k \in DOMAIN last_log_collected' \ LoggedKeys(notified') :
               /\ k \in DOMAIN last_log_collected
               /\ last_log_collected'[k] = last_log_collected[k]
         /\ DOMAIN last_log_collected \subseteq DOMAIN last_log_collected'
      ]_vars

(* one key is recorded while another key holds an observation that the     *)
(* cutoff of this call would drop, and the last-log map has an entry of    *)
(* a key that is not recorded                                              *)
C26_Witness ==
    /\ request.route = "/pods"
    /\ Len(calls) = 1
    /\ \E k \in DOMAIN restart_history \ RecordedKeys(calls) :
          /\ restart_history[k] # <<>>
          /\ restart_history[k][1].timestamp
                <= calls[1].now - WindowSeconds
          /\ k \in DOMAIN last_log_collected

(* how often the item named i stands in the list l *)
TimesIn(l, i) == Cardinality({j \in 1..Len(l) : l[j].name = i})

SendsOf(priority) ==
    {j \in 1..Len(monitor_check.sent) :
        monitor_check.sent[j].priority = priority}

(* C27: a check of the PVC monitor or of the node-disk monitor puts an     *)
(* item in the critical list iff its usage is at least CRITICAL_THRESHOLD, *)
(* in the warning list iff its usage is at least WARNING_THRESHOLD and     *)
(* below CRITICAL_THRESHOLD, never in both and never twice; the counts it  *)
(* reports are the lengths of the lists, so warnings + criticals <= total; *)
(* it makes one urgent send iff the critical list is not empty and one     *)
(* high send iff the warning list is not empty, and answers 200.           *)
C27_EachItemInOneList ==
    monitor_check.service # "none" =>
       LET m == monitor_check
       IN /\ \A i \in 1..Len(m.items) :
                LET u == m.items[i].usage_percent
                IN /\ TimesIn(m.criticals, i)
                        = IF u >= m.CRITICAL_THRESHOLD THEN 1 ELSE 0
                   /\ TimesIn(m.warnings, i)
                        = IF u >= m.WARNING_THRESHOLD /\ u < m.CRITICAL_THRESHOLD
                          THEN 1 ELSE 0
                   /\ TimesIn(m.criticals, i) + TimesIn(m.warnings, i) <= 1
          /\ \A j \in 1..Len(m.criticals) :
                \E i \in 1..Len(m.items) : m.criticals[j] = m.items[i]
          /\ \A j \in 1..Len(m.warnings) :
                \E i \in 1..Len(m.items) : m.warnings[j] = m.items[i]
          /\ m.response = 200
          /\ m.body = [total |-> Len(m.items), warnings |-> Len(m.warnings),
                       criticals |-> Len(m.criticals)]
          /\ m.body.warnings + m.body.criticals <= m.body.total
          /\ Cardinality(SendsOf("urgent")) = IF m.criticals # <<>> THEN 1 ELSE 0
          /\ Cardinality(SendsOf("high")) = IF m.warnings # <<>> THEN 1 ELSE 0
          /\ Len(m.sent) = Cardinality(SendsOf("urgent") \cup SendsOf("high"))
          /\ \A j \in SendsOf("urgent") : m.sent[j].listed = m.criticals
          /\ \A j \in SendsOf("high") : m.sent[j].listed = m.warnings

(* a check with the default thresholds that found a critical item, a       *)
(* warning item and a normal one, and whose two sends were not delivered   *)
C27_Witness ==
    /\ monitor_check.service = "node-disk-monitor"
    /\ monitor_check.WARNING_THRESHOLD = 80
    /\ monitor_check.CRITICAL_THRESHOLD = 90
    /\ Len(monitor_check.items) = 3
    /\ Len(monitor_check.criticals) = 1
    /\ Len(monitor_check.warnings) = 1
    /\ Len(monitor_check.sent) = 2
    /\ ~monitor_check.sent[1].delivered

DriftCounts == {"out_of_sync", "degraded", "manual_changes"}

(* C28: POST /check of the drift detector always answers 200 with the      *)
(* counts out_of_sync, degraded and manual_changes, also when the listing  *)
(* of the ArgoCD applications exits with a non-zero status.                *)
C28_DriftCheckAlwaysOk ==
    drift_check.checked =>
       /\ drift_check.response = 200
       /\ DOMAIN drift_check.body = DriftCounts

(* the event handled last has a host that contains BASE_DOMAIN *)
Matching ==
    \E i \in 1..Len(cert_event.rules) : IsSubstring(BASE_DOMAIN, cert_event.rules[i])

(* the nodes of NODE_IPS, blank entries left out, in their order *)
ConfiguredNodes ==
    LET stripped == [i \in 1..Len(cert_event.NODE_IPS) |->
                        Strip(cert_event.NODE_IPS[i])]
    IN SelectSeq(stripped, LAMBDA n : n # "")

Contacted == [i \in 1..Len(cert_event.results) |-> cert_event.results[i].node]

SomeNodeSucceeded ==
    \E i \in 1..Len(cert_event.results) :
       cert_event.results[i].outcome # "unreachable"

(* C29: an Ingress event with no host containing BASE_DOMAIN is answered   *)
(* 200 and no node is contacted; one with such a host is answered 200 iff  *)
(* the distribution to at least one node succeeded and 500 otherwise, so   *)
(* with no node configured or every node failing it is answered 500; and   *)
(* once the CA is read every configured node is contacted, whatever the    *)
(* nodes before it did.                                                    *)
C29_OneNodeIsEnough ==
    (cert_event.handled /\ cert_event.decodable) =>
       /\ ~Matching => cert_event.response = 200 /\ Contacted = <<>>
       /\ Matching =>
            /\ cert_event.response = IF SomeNodeSucceeded THEN 200 ELSE 500
            /\ cert_event.ca = "read" => Contacted = ConfiguredNodes
            /\ ConfiguredNodes = <<>> => cert_event.response = 500

(* the first configured node could not be reached, the second one took the *)
(* CA, and the event is answered 200                                       *)
C29_Witness ==
    /\ cert_event.handled
    /\ cert_event.decodable
    /\ Matching
    /\ Len(cert_event.results) = 2
    /\ cert_event.results[1].outcome = "unreachable"
    /\ cert_event.results[2].outcome = "installed"
    /\ cert_event.response = 200

(* the services of CRITICAL_SERVICES that are probed *)
ProbedServices ==
    {health_run.CRITICAL_SERVICES[i] : i \in 1..Len(health_run.CRITICAL_SERVICES)}
       \cap {e \in ServiceEntries : HasPort(e)}

(* the checks and sub-checks whose result has success = false *)
FailedProbes ==
    LET p == health_run.probes
    IN {<<"kubernetes_api">> : x \in {y \in {p.api} : ~y}}
         \cup {<<"node_connectivity">> : x \in {y \in {p.node} : ~y}}
         \cup {<<"dns", d>> : d \in {x \in DOMAIN p.dns : ~p.dns[x]}}
         \cup {<<"critical_services", e>> : e \in {x \in ProbedServices : ~p.tcp[x]}}

(* the answer holds the result of every probe that was made *)
FullResults ==
    LET checks == health_run.body.checks
        p == health_run.probes
        SubsOf(c) == {<<c.subs[j].name, c.subs[j].success>> : j \in 1..Len(c.subs)}
    IN /\ Len(checks) = 4
       /\ checks[1] = Single("kubernetes_api", p.api)
       /\ checks[4] = Single("node_connectivity", p.node)
       /\ checks[2].name = "dns"
       /\ SubsOf(checks[2]) = {<<d, p.dns[d]>> : d \in DOMAIN p.dns}
       /\ checks[3].name = "critical_services"
       /\ SubsOf(checks[3]) = {<<e, p.tcp[e]>> : e \in ProbedServices}

====
